---- MODULE Spec2Model ----
(***************************************************************************)
(* Model of casbin_sqlalchemy_adapter/adapter.py: the casbin_rule table    *)
(* and the Adapter operations that read and write it.                      *)
(*                                                                         *)
(* The table is the sequence of committed rows in ascending id order (an   *)
(* insert gets an id above every existing one, so it appends).  A row is   *)
(* [ptype, v] with v a tuple of NumFields values, v[i+1] standing for the  *)
(* column v<i>; NULL is the unset column value.  Every session is its own  *)
(* transaction: its writes reach the table when it commits and are dropped *)
(* when it rolls back.                                                     *)
(*                                                                         *)
(* last is the call last made on the adapter as its caller sees it (the    *)
(* arguments, whether it raised, what it returned), pre the table when     *)
(* that call began, and prev the call before it when both were made with   *)
(* the same ptype and rule.  filtered is the adapter's _filtered flag and  *)
(* was its value when the last call began.  sess counts the sessions that  *)
(* are open and lists how the sessions of the last call ended.  seen is    *)
(* what a load_policy of another adapter read while a save_policy ran.     *)
(***************************************************************************)
EXTENDS Integers, Sequences, FiniteSets, TLC

VARIABLES table, pc, todo, last, pre, prev, filtered, was, sess, seen

vars == <<table, pc, todo, last, pre, prev, filtered, was, sess, seen>>

\* CasbinRule has the value columns v0..v5.
NumFields == 6

\* The value of a column that was never set (None / SQL NULL).
NULL == "<NULL>"

----------------------------------------------------------------------------
\* Bounds of the model.

\* An inserting call starts only while the table holds fewer rows than this.
MaxRows == 2

\* Longest rule tuple handed to the adapter.
MaxRuleLen == 7

\* Longest batch handed to add_policies.
MaxBatch == 2

----------------------------------------------------------------------------
\* Inputs.

PTypes == {"p", "g"}

\* The i-th element of the longest rule.
ChainElem(i) ==
    CASE i = 1 -> "alice"
      [] i = 2 -> "data1"
      [] i = 3 -> "read"
      [] OTHER -> "x"

\* The rule made of the first n elements.
Chain(n) == [i \in 1..n |-> ChainElem(i)]

\* Rule tuples of every length from 1 to MaxRuleLen, and two rules that
\* differ from them in the first and in the second element.
Rules == {Chain(n) : n \in 1..MaxRuleLen} \cup {<<"bob">>, <<"alice", "data2">>}

\* Short rule tuples, for the calls whose arguments are two rules.
ShortRules == {Chain(1), Chain(2), Chain(3), <<"bob">>}

\* Policy models handed to save_policy: a model is the sequence of its
\* assertions [sec, ptype, policy] in the order the sections hold them.
Models ==
    { <<>>,
      << [sec |-> "p", ptype |-> "p", policy |-> <<Chain(3)>>] >>,
      << [sec |-> "g", ptype |-> "g", policy |-> <<Chain(2)>>],
         [sec |-> "p", ptype |-> "p", policy |-> <<Chain(3), <<"bob">> >>] >>,
      << [sec |-> "p", ptype |-> "p", policy |-> <<Chain(1), Chain(1)>>],
         [sec |-> "p", ptype |-> "p2", policy |-> <<Chain(NumFields)>>] >> }

\* Batches handed to add_policies: up to MaxBatch rules.
BatchRules == {Chain(1), Chain(MaxRuleLen)}
Batches == UNION {[1..n -> BatchRules] : n \in 0..MaxBatch}

\* Arguments of remove_filtered_policy.
FieldIndexes == {-1, 0, 1, 5, 6}
FieldValues ==
    { <<>>, <<"">>, <<"alice">>, <<"data1">>, <<"", "data1">>,
      <<"alice", "data1">>, <<"data1", "read">> }

\* Rule lists handed to remove_policies: up to MaxBatch rules.
RemoveRules == {<<"alice", "data1">>, <<"bob", "data2">>, Chain(3)}
RuleLists ==
    UNION {[1..n -> RemoveRules] : n \in 0..MaxBatch} \cup {<<Chain(MaxRuleLen)>>}

\* Pairs of an old and a new rule, and the lists of up to MaxBatch pairs
\* handed to update_policies (old_rules and new_rules side by side).
RulePairs ==
    { [old_rule |-> Chain(2), new_rule |-> Chain(1)],
      [old_rule |-> Chain(1), new_rule |-> <<"bob">>],
      [old_rule |-> <<"bob">>, new_rule |-> Chain(2)] }
PairLists == UNION {[1..n -> RulePairs] : n \in 0..MaxBatch}

\* Filters handed to load_filtered_policy: a set of accepted values for
\* ptype and for each value column, the empty set accepting every value.
MakeFilter(ptypes, v0, v1, v2) ==
    [ptype |-> ptypes,
     v |-> [i \in 1..NumFields |->
              CASE i = 1 -> v0 [] i = 2 -> v1 [] i = 3 -> v2 [] OTHER -> {}]]

Filters ==
    { MakeFilter({}, {}, {}, {}),
      MakeFilter({"p"}, {}, {}, {}),
      MakeFilter({}, {"alice"}, {}, {}),
      MakeFilter({"p", "g"}, {"alice", "bob"}, {"data1"}, {}),
      MakeFilter({}, {}, {"data2", "data1"}, {"read"}),
      MakeFilter({"g"}, {"bob"}, {}, {}) }

\* Where a load fails: nowhere, in its query, or in the commit that ends its
\* session scope.
LoadFailures == {"no", "query", "commit"}

----------------------------------------------------------------------------
\* Helpers on sequences.

\* The rows of tbl at the positions not in idx, in order.
RECURSIVE Remaining(_, _, _)
Remaining(tbl, idx, k) ==
    IF k > Len(tbl) THEN <<>>
    ELSE (IF k \in idx THEN <<>> ELSE <<tbl[k]>>) \o Remaining(tbl, idx, k + 1)

----------------------------------------------------------------------------
\* The record of the call last made on the adapter, as its caller sees it.

NoCall ==
    [op |-> "none", ptype |-> "", idx |-> 0, a |-> <<>>, b |-> <<>>,
     status |-> "ok", ret |-> "None"]

Call(op, ptype, idx, a, b, status, ret) ==
    [op |-> op, ptype |-> ptype, idx |-> idx, a |-> a, b |-> b,
     status |-> status, ret |-> ret]

\* The calls whose argument a is one rule tuple.
RuleOps == {"add_policy", "remove_policy", "update_policy"}

\* The calls that load the table into a model.
LoadOps == {"load_policy", "load_filtered_policy"}

NoPrev ==
    [op |-> "none", ptype |-> "", a |-> <<>>, status |-> "ok", ret |-> "None",
     pre |-> <<>>]

\* No session open, none ended.
NoSess == [open |-> 0, ended |-> <<>>]

\* _session_scope, entry: session_local() opens a session.
Enter(s) == [s EXCEPT !.open = @ + 1]

\* Exit that closes the session only when nothing was raised.
ExitLeaks(s, raised) ==
    [open |-> IF raised THEN s.open ELSE s.open - 1,
     ended |-> Append(s.ended, IF raised THEN "rollback" ELSE "commit")]

\* _session_scope, exit: commit when the body and the commit raise nothing,
\* else rollback and re-raise; close in both cases.
Exit(s, raised) ==
    [open |-> s.open - 1,
     ended |-> Append(s.ended, IF raised THEN "rollback" ELSE "commit")]

\* A call begins and ends: it becomes the last call.
Logged(call) ==
    /\ last' = call
    /\ pre' = table
    /\ was' = filtered
    /\ prev' = IF \/ /\ last.op \in RuleOps
                     /\ call.op \in RuleOps
                     /\ last.ptype = call.ptype
                     /\ last.a = call.a
                  \/ /\ last.op = "add_policy"
                     /\ call.op \in LoadOps
               THEN [op |-> last.op, ptype |-> last.ptype, a |-> last.a,
                     status |-> last.status, ret |-> last.ret, pre |-> pre]
               ELSE NoPrev

\* A call that runs inside one session scope begins and ends.
Returns(call) ==
    /\ Logged(call)
    /\ sess' = Exit(Enter(NoSess), call.status = "raised")

----------------------------------------------------------------------------
\* _save_policy_line: the row built from ptype and rule.  setattr on a name
\* beyond v5 sets no column.
SavePolicyLine(ptype, rule) ==
    [ptype |-> ptype,
     v |-> [i \in 1..NumFields |-> IF i <= Len(rule) THEN rule[i] ELSE NULL]]

\* RuleQuery with a loop that stops one element early.
RECURSIVE RuleQuerySkipsLast(_, _, _, _)
RuleQuerySkipsLast(tbl, idx, rule, i) ==
    IF i >= Len(rule) THEN idx
    ELSE RuleQuerySkipsLast(tbl, {k \in idx : tbl[k].v[i] = rule[i]}, rule, i + 1)

\* query.filter(v<i> == value) for each element of rule in turn, over the
\* positions idx of tbl.
RECURSIVE RuleQuery(_, _, _, _)
RuleQuery(tbl, idx, rule, i) ==
    IF i > Len(rule) THEN idx
    ELSE RuleQuery(tbl, {k \in idx : tbl[k].v[i] = rule[i]}, rule, i + 1)

\* PtypeQuery without the filter on ptype.
PtypeQueryAll(tbl, ptype) == 1..Len(tbl)

\* query.filter(ptype == ptype)
PtypeQuery(tbl, ptype) == {k \in 1..Len(tbl) : tbl[k].ptype = ptype}

\* getattr(db_class, "v<i>") raises AttributeError for i > 5.
NoSuchColumn(rule) == Len(rule) > NumFields

\* Nothing read by another adapter.
NoSeen == [active |-> FALSE, rows |-> <<>>, before |-> <<>>, after |-> <<>>]

----------------------------------------------------------------------------
Init ==
    /\ table = <<>>
    /\ pc = "idle"
    /\ todo = <<>>
    /\ last = NoCall
    /\ pre = <<>>
    /\ prev = NoPrev
    /\ filtered = FALSE
    /\ was = FALSE
    /\ sess = NoSess
    /\ seen = NoSeen

\* add_policy(sec, ptype, rule): one _save_policy_line in its own session;
\* the commit may fail, which rolls the insert back and raises.
AddPolicy(ptype, rule, fail) ==
    /\ pc = "idle"
    /\ Len(table) < MaxRows
    /\ table' = IF fail THEN table ELSE Append(table, SavePolicyLine(ptype, rule))
    /\ Returns(Call("add_policy", ptype, 0, rule, <<>>,
                    IF fail THEN "raised" ELSE "ok", "None"))
    /\ UNCHANGED <<pc, todo, filtered, seen>>

\* The rows add_policies has committed when its insert number failAt fails
\* (failAt = 0: none fails): one session, and one commit, per rule.
RECURSIVE AddedLines(_, _, _, _)
AddedLines(ptype, rules, k, failAt) ==
    IF k > Len(rules) \/ k = failAt THEN <<>>
    ELSE <<SavePolicyLine(ptype, rules[k])>> \o AddedLines(ptype, rules, k + 1, failAt)

\* The session scopes of add_policies: one per rule, up to the failing one.
RECURSIVE AddedScopes(_, _, _, _)
AddedScopes(s, n, k, failAt) ==
    IF k > n THEN s
    ELSE IF k = failAt THEN Exit(Enter(s), TRUE)
    ELSE AddedScopes(Exit(Enter(s), FALSE), n, k + 1, failAt)

\* add_policies(sec, ptype, rules)
AddPolicies(ptype, rules, failAt) ==
    /\ pc = "idle"
    /\ Len(table) < MaxRows
    /\ table' = table \o AddedLines(ptype, rules, 1, failAt)
    /\ Logged(Call("add_policies", ptype, failAt, rules, <<>>,
                   IF failAt = 0 THEN "ok" ELSE "raised", "None"))
    /\ sess' = AddedScopes(NoSess, Len(rules), 1, failAt)
    /\ UNCHANGED <<pc, todo, filtered, seen>>

\* The rule tuples of a model that save_policy stores, in the order it visits
\* them: section "p" then section "g", each assertion's policy in order.
RECURSIVE PolicyLines(_, _)
PolicyLines(ptype, policy) ==
    IF policy = <<>> THEN <<>>
    ELSE <<[ptype |-> ptype, rule |-> Head(policy)]>> \o PolicyLines(ptype, Tail(policy))

RECURSIVE SectionLines(_, _)
SectionLines(model, sec) ==
    IF model = <<>> THEN <<>>
    ELSE (IF Head(model).sec = sec
          THEN PolicyLines(Head(model).ptype, Head(model).policy)
          ELSE <<>>) \o SectionLines(Tail(model), sec)

\* ModelLines visiting the "p" section only.
ModelLinesOnlyP(model) == SectionLines(model, "p")

ModelLines(model) == SectionLines(model, "p") \o SectionLines(model, "g")

\* save_policy(model), first step: the outer session opens and query.delete()
\* deletes every row inside the outer transaction (the rows of pre).
SaveBegin(model) ==
    /\ pc = "idle"
    /\ Len(table) < MaxRows
    /\ pc' = "save"
    /\ todo' = ModelLines(model)
    /\ Logged(Call("save_policy", "", 0, model, <<>>, "running", "None"))
    /\ sess' = Enter(NoSess)
    /\ UNCHANGED <<table, filtered, seen>>

\* save_policy, one turn of the loop: _save_policy_line inserts the rule in
\* a session of its own and commits it.  A failing insert rolls its own
\* session back and the exception rolls the outer session (the delete) back.
SaveLine(fail) ==
    /\ pc = "save"
    /\ todo # <<>>
    /\ IF fail
       THEN /\ pc' = "idle"
            /\ todo' = <<>>
            /\ last' = [last EXCEPT !.status = "raised"]
            /\ sess' = Exit(Exit(Enter(sess), TRUE), TRUE)
            /\ UNCHANGED table
       ELSE /\ table' = Append(table, SavePolicyLine(Head(todo).ptype, Head(todo).rule))
            /\ todo' = Tail(todo)
            /\ sess' = Exit(Enter(sess), FALSE)
            /\ UNCHANGED <<pc, last>>
    /\ UNCHANGED <<pre, prev, filtered, was, seen>>

\* save_policy, last step: the outer session commits the delete of the rows
\* it saw, and the call returns True; a failing commit rolls the delete back.
SaveCommit(fail) ==
    /\ pc = "save"
    /\ todo = <<>>
    /\ pc' = "idle"
    /\ IF fail
       THEN /\ last' = [last EXCEPT !.status = "raised"]
            /\ UNCHANGED table
       ELSE /\ table' = SubSeq(table, Len(pre) + 1, Len(table))
            /\ last' = [last EXCEPT !.status = "ok", !.ret = "True"]
    /\ sess' = Exit(sess, fail)
    /\ UNCHANGED <<todo, pre, prev, filtered, was, seen>>

\* remove_policy(sec, ptype, rule)
RemovePolicy(ptype, rule) ==
    /\ pc = "idle"
    /\ IF NoSuchColumn(rule)
       THEN /\ table' = table
            /\ Returns(Call("remove_policy", ptype, 0, rule, <<>>, "raised", "None"))
       ELSE LET q == RuleQuery(table, PtypeQuery(table, ptype), rule, 1)
                r == Cardinality(q)
            IN /\ table' = Remaining(table, q, 1)
               /\ Returns(Call("remove_policy", ptype, 0, rule, <<>>, "ok",
                               IF r > 0 THEN "True" ELSE "False"))
    /\ UNCHANGED <<pc, todo, filtered, seen>>

\* FilteredQuery that filters on the empty-string values as well.
RECURSIVE FilteredQueryNoWildcard(_, _, _, _, _)
FilteredQueryNoWildcard(tbl, idx, field_index, field_values, i) ==
    IF i > Len(field_values) THEN idx
    ELSE FilteredQueryNoWildcard(tbl,
             {k \in idx : tbl[k].v[field_index + i] = field_values[i]},
             field_index, field_values, i + 1)

\* remove_filtered_policy: the filters added for the non-empty field values.
RECURSIVE FilteredQuery(_, _, _, _, _)
FilteredQuery(tbl, idx, field_index, field_values, i) ==
    IF i > Len(field_values) THEN idx
    ELSE FilteredQuery(tbl,
             IF field_values[i] # ""
             THEN {k \in idx : tbl[k].v[field_index + i] = field_values[i]}
             ELSE idx,
             field_index, field_values, i + 1)

\* BadBounds without the lower bound on field_index + len(field_values).
BadBoundsNoLower(field_index, field_values) ==
    \/ ~(0 <= field_index /\ field_index <= 5)
    \/ ~(field_index + Len(field_values) <= 6)

\* remove_filtered_policy: the two bounds checks that make it return False.
BadBounds(field_index, field_values) ==
    \/ ~(0 <= field_index /\ field_index <= 5)
    \/ ~(1 <= field_index + Len(field_values)
         /\ field_index + Len(field_values) <= 6)

\* RemoveFilteredPolicy that refuses a call with no non-empty field value.
RemoveFilteredPolicyGuarded(ptype, field_index, field_values) ==
    /\ pc = "idle"
    /\ IF \/ BadBounds(field_index, field_values)
          \/ \A i \in 1..Len(field_values) : field_values[i] = ""
       THEN /\ table' = table
            /\ Returns(Call("remove_filtered_policy", ptype, field_index,
                            field_values, <<>>, "ok", "False"))
       ELSE LET q == FilteredQuery(table, PtypeQuery(table, ptype),
                                   field_index, field_values, 1)
                r == Cardinality(q)
            IN /\ table' = Remaining(table, q, 1)
               /\ Returns(Call("remove_filtered_policy", ptype, field_index,
                               field_values, <<>>, "ok",
                               IF r > 0 THEN "True" ELSE "False"))
    /\ UNCHANGED <<pc, todo, filtered, seen>>

\* remove_filtered_policy(sec, ptype, field_index, *field_values)
RemoveFilteredPolicy(ptype, field_index, field_values) ==
    /\ pc = "idle"
    /\ IF BadBounds(field_index, field_values)
       THEN /\ table' = table
            /\ Returns(Call("remove_filtered_policy", ptype, field_index,
                            field_values, <<>>, "ok", "False"))
       ELSE LET q == FilteredQuery(table, PtypeQuery(table, ptype),
                                   field_index, field_values, 1)
                r == Cardinality(q)
            IN /\ table' = Remaining(table, q, 1)
               /\ Returns(Call("remove_filtered_policy", ptype, field_index,
                               field_values, <<>>, "ok",
                               IF r > 0 THEN "True" ELSE "False"))
    /\ UNCHANGED <<pc, todo, filtered, seen>>

\* Overwrite that leaves the fields beyond new_rule as they are.
OverwriteKeepsTail(row, old_rule, new_rule) ==
    [row EXCEPT !.v =
        [i \in 1..NumFields |->
            IF i <= Len(new_rule) THEN new_rule[i] ELSE row.v[i]]]

\* update_policy: the row old_rule_line after the overwrite loop.
Overwrite(row, old_rule, new_rule) ==
    LET longest_rule == IF Len(old_rule) > Len(new_rule) THEN old_rule ELSE new_rule
    IN [row EXCEPT !.v =
          [i \in 1..NumFields |->
              IF i <= Len(longest_rule)
              THEN (IF i <= Len(new_rule) THEN new_rule[i] ELSE NULL)
              ELSE row.v[i]]]

\* UpdatePolicy taking the first match (query.first()) instead of requiring
\* exactly one.
UpdatePolicyFirst(ptype, old_rule, new_rule) ==
    /\ pc = "idle"
    /\ LET q == IF NoSuchColumn(old_rule) THEN {}
                ELSE RuleQuery(table, PtypeQuery(table, ptype), old_rule, 1)
       IN IF q = {}
          THEN /\ table' = table
               /\ Returns(Call("update_policy", ptype, 0, old_rule, new_rule,
                               "raised", "None"))
          ELSE LET k == CHOOSE j \in q : \A n \in q : j <= n
               IN /\ table' = [table EXCEPT ![k] = Overwrite(table[k], old_rule, new_rule)]
                  /\ Returns(Call("update_policy", ptype, 0, old_rule, new_rule,
                                  "ok", "None"))
    /\ UNCHANGED <<pc, todo, filtered, seen>>

\* update_policy(sec, ptype, old_rule, new_rule): query.one() raises unless
\* exactly one row matches.
UpdatePolicy(ptype, old_rule, new_rule) ==
    /\ pc = "idle"
    /\ LET q == IF NoSuchColumn(old_rule) THEN {}
                ELSE RuleQuery(table, PtypeQuery(table, ptype), old_rule, 1)
       IN IF NoSuchColumn(old_rule) \/ Cardinality(q) # 1
          THEN /\ table' = table
               /\ Returns(Call("update_policy", ptype, 0, old_rule, new_rule,
                               "raised", "None"))
          ELSE LET k == CHOOSE j \in q : TRUE
               IN /\ table' = [table EXCEPT ![k] = Overwrite(table[k], old_rule, new_rule)]
                  /\ Returns(Call("update_policy", ptype, 0, old_rule, new_rule,
                                  "ok", "None"))
    /\ UNCHANGED <<pc, todo, filtered, seen>>

\* update_policies, the loop from pair k on: each update_policy runs in a
\* session scope of its own and commits before the next one starts; the
\* first one that raises ends the loop.  st is the table, the number of the
\* pair that raised (0: none) and the sessions so far.
RECURSIVE RunUpdates(_, _, _, _)
RunUpdates(st, ptype, pairs, k) ==
    IF k > Len(pairs) THEN st
    ELSE LET old_rule == pairs[k].old_rule
             new_rule == pairs[k].new_rule
             q == IF NoSuchColumn(old_rule) THEN {}
                  ELSE RuleQuery(st.table, PtypeQuery(st.table, ptype), old_rule, 1)
         IN IF Cardinality(q) # 1
            THEN [st EXCEPT !.failed = k, !.sess = Exit(Enter(@), TRUE)]
            ELSE LET m == CHOOSE j \in q : TRUE
                 IN RunUpdates(
                        [table |-> [st.table EXCEPT
                                       ![m] = Overwrite(st.table[m], old_rule, new_rule)],
                         failed |-> 0,
                         sess |-> Exit(Enter(st.sess), FALSE)],
                        ptype, pairs, k + 1)

\* UpdatePolicies that undoes the whole batch when one update raises.
UpdatePoliciesAtomic(ptype, pairs) ==
    /\ pc = "idle"
    /\ LET end == RunUpdates([table |-> table, failed |-> 0, sess |-> NoSess],
                             ptype, pairs, 1)
       IN /\ table' = IF end.failed # 0 THEN table ELSE end.table
          /\ sess' = end.sess
          /\ Logged(Call("update_policies", ptype, end.failed,
                         [n \in 1..Len(pairs) |-> pairs[n].old_rule],
                         [n \in 1..Len(pairs) |-> pairs[n].new_rule],
                         IF end.failed = 0 THEN "ok" ELSE "raised", "None"))
    /\ UNCHANGED <<pc, todo, filtered, seen>>

\* update_policies(sec, ptype, old_rules, new_rules), the two lists given as
\* the list of their pairs.
UpdatePolicies(ptype, pairs) ==
    /\ pc = "idle"
    /\ LET end == RunUpdates([table |-> table, failed |-> 0, sess |-> NoSess],
                             ptype, pairs, 1)
       IN /\ table' = end.table
          /\ sess' = end.sess
          /\ Logged(Call("update_policies", ptype, end.failed,
                         [n \in 1..Len(pairs) |-> pairs[n].old_rule],
                         [n \in 1..Len(pairs) |-> pairs[n].new_rule],
                         IF end.failed = 0 THEN "ok" ELSE "raised", "None"))
    /\ UNCHANGED <<pc, todo, filtered, seen>>

\* The length of the shortest of the rules from the k-th on, at most n:
\* zip(*rules) stops with the shortest rule.
RECURSIVE Shortest(_, _, _)
Shortest(rules, k, n) ==
    IF k > Len(rules) THEN n
    ELSE Shortest(rules, k + 1, IF Len(rules[k]) < n THEN Len(rules[k]) ELSE n)

\* PoliciesQuery matching each rule as a whole.
PoliciesQueryExact(tbl, idx, rules, i) ==
    {k \in idx : \E r \in 1..Len(rules) :
        \A j \in 1..Len(rules[r]) : tbl[k].v[j] = rules[r][j]}

\* remove_policies, the loop over zip(*rules): for each position from i on,
\* a filter or_(v<i> == v for v in the rules' elements at that position).
RECURSIVE PoliciesQuery(_, _, _, _)
PoliciesQuery(tbl, idx, rules, i) ==
    IF i > Shortest(rules, 2, Len(rules[1])) THEN idx
    ELSE PoliciesQuery(tbl,
             {k \in idx : \E r \in 1..Len(rules) : tbl[k].v[i] = rules[r][i]},
             rules, i + 1)

\* remove_policies(sec, ptype, rules): returns at once, without a session,
\* when rules is empty.
RemovePolicies(ptype, rules) ==
    /\ pc = "idle"
    /\ IF rules = <<>>
       THEN /\ table' = table
            /\ Logged(Call("remove_policies", ptype, 0, rules, <<>>, "ok", "None"))
            /\ sess' = NoSess
       ELSE IF Shortest(rules, 2, Len(rules[1])) > NumFields
       THEN /\ table' = table
            /\ Returns(Call("remove_policies", ptype, 0, rules, <<>>, "raised", "None"))
       ELSE /\ table' = Remaining(table,
                            PoliciesQuery(table, PtypeQuery(table, ptype), rules, 1), 1)
            /\ Returns(Call("remove_policies", ptype, 0, rules, <<>>, "ok", "None"))
    /\ UNCHANGED <<pc, todo, filtered, seen>>

\* ", ".join(arr)
RECURSIVE Join(_, _)
Join(arr, sep) ==
    IF arr = <<>> THEN ""
    ELSE IF Len(arr) = 1 THEN arr[1]
    ELSE arr[1] \o sep \o Join(Tail(arr), sep)

\* CasbinRule.__str__, the loop: the values from column i on, up to the first
\* unset one.
RECURSIVE StrValues(_, _)
StrValues(v, i) ==
    IF i > NumFields \/ v[i] = NULL THEN <<>>
    ELSE <<v[i]>> \o StrValues(v, i + 1)

\* Str joining with a bare comma.
StrComma(row) == Join(<<row.ptype>> \o StrValues(row.v, 1), ",")

\* CasbinRule.__str__
Str(row) == Join(<<row.ptype>> \o StrValues(row.v, 1), ", ")

\* What a load feeds the model's line loader for the rows at the positions
\* order[1], order[2], ... of tbl.
Fed(tbl, order) ==
    [n \in 1..Len(order) |-> [row |-> tbl[order[n]], line |-> Str(tbl[order[n]])]]

\* LoadPolicy that clears the _filtered flag after an unfiltered load.
LoadPolicyResets(order, fail) ==
    /\ pc = "idle"
    /\ Returns(Call("load_policy", "", 0, <<>>,
                    IF fail = "query" THEN <<>> ELSE Fed(table, order),
                    IF fail = "no" THEN "ok" ELSE "raised", "None"))
    /\ filtered' = FALSE
    /\ UNCHANGED <<table, pc, todo, seen>>

\* load_policy(model): query.all() returns the rows in an order of the
\* backend's choosing; each is fed to load_policy_line as str(line).
LoadPolicy(order, fail) ==
    /\ pc = "idle"
    /\ Returns(Call("load_policy", "", 0, <<>>,
                    IF fail = "query" THEN <<>> ELSE Fed(table, order),
                    IF fail = "no" THEN "ok" ELSE "raised", "None"))
    /\ UNCHANGED <<table, pc, todo, filtered, seen>>

\* FilterQuery with the filter on ptype only.
FilterQueryPtypeOnly(tbl, filter) ==
    IF filter.ptype # {}
    THEN {k \in 1..Len(tbl) : tbl[k].ptype \in filter.ptype}
    ELSE 1..Len(tbl)

\* filter_query, the value columns from column i on: an in_ filter for each
\* column whose list is not empty.
RECURSIVE ColumnsQuery(_, _, _, _)
ColumnsQuery(tbl, idx, filter, i) ==
    IF i > NumFields THEN idx
    ELSE ColumnsQuery(tbl,
             IF filter.v[i] # {}
             THEN {k \in idx : tbl[k].v[i] \in filter.v[i]}
             ELSE idx,
             filter, i + 1)

\* filter_query: the positions of the rows the filtered query selects.
FilterQuery(tbl, filter) ==
    ColumnsQuery(tbl,
        IF filter.ptype # {}
        THEN {k \in 1..Len(tbl) : tbl[k].ptype \in filter.ptype}
        ELSE 1..Len(tbl),
        filter, 1)

\* order_by(CasbinRule.id): the positions of idx from position k on,
\* ascending.
RECURSIVE ById(_, _, _)
ById(idx, k, n) ==
    IF k > n THEN <<>>
    ELSE (IF k \in idx THEN <<k>> ELSE <<>>) \o ById(idx, k + 1, n)

\* load_filtered_policy(model, filter): _filtered is set at the end of the
\* body, before the commit that ends the session scope.
LoadFilteredPolicy(filter, fail) ==
    /\ pc = "idle"
    /\ Returns(Call("load_filtered_policy", "", 0, filter,
                    IF fail = "query" THEN <<>>
                    ELSE Fed(table, ById(FilterQuery(table, filter), 1, Len(table))),
                    IF fail = "no" THEN "ok" ELSE "raised", "None"))
    /\ filtered' = IF fail = "query" THEN filtered ELSE TRUE
    /\ UNCHANGED <<table, pc, todo, seen>>

----------------------------------------------------------------------------
\* Adding and removing single rules.

AddArgs ==
    {[ptype |-> "p", rule |-> r] : r \in Rules}
        \cup {[ptype |-> "g", rule |-> Chain(2)]}

Next ==
    \/ \E arg \in AddArgs, fail \in BOOLEAN : AddPolicy(arg.ptype, arg.rule, fail)
    \/ \E ptype \in PTypes, rule \in Rules : RemovePolicy(ptype, rule)
    \/ \E ptype \in PTypes, field_index \in FieldIndexes, field_values \in FieldValues :
           RemoveFilteredPolicy(ptype, field_index, field_values)

Spec == Init /\ [][Next]_vars

\* Saving a model over a table filled by add_policy.

SaveAddArgs ==
    {[ptype |-> "p", rule |-> Chain(1)], [ptype |-> "p", rule |-> <<"bob">>],
     [ptype |-> "g", rule |-> Chain(1)]}

NextSave ==
    \/ \E arg \in SaveAddArgs, fail \in BOOLEAN : AddPolicy(arg.ptype, arg.rule, fail)
    \/ \E model \in Models : SaveBegin(model)
    \/ \E fail \in BOOLEAN : SaveLine(fail)
    \/ \E fail \in BOOLEAN : SaveCommit(fail)

SpecSave == Init /\ [][NextSave]_vars

\* Adding single rules and batches of rules.

NextBatch ==
    \/ \E ptype \in PTypes, rule \in BatchRules, fail \in BOOLEAN :
           AddPolicy(ptype, rule, fail)
    \/ \E ptype \in PTypes, rules \in Batches, failAt \in 0..MaxBatch :
           failAt <= Len(rules) /\ AddPolicies(ptype, rules, failAt)

SpecBatch == Init /\ [][NextBatch]_vars

\* Adding and updating rules.

UpdateAddArgs ==
    {[ptype |-> "p", rule |-> r] : r \in ShortRules}
        \cup {[ptype |-> "g", rule |-> Chain(2)]}

UpdateArgs ==
    {[ptype |-> "p", old_rule |-> o, new_rule |-> n] :
        o \in ShortRules \cup {Chain(MaxRuleLen)}, n \in ShortRules}
        \cup {[ptype |-> "g", old_rule |-> o, new_rule |-> n] :
                o \in {Chain(1), Chain(2)}, n \in {Chain(1), Chain(2)}}

NextUpdate ==
    \/ \E arg \in UpdateAddArgs, fail \in BOOLEAN : AddPolicy(arg.ptype, arg.rule, fail)
    \/ \E arg \in UpdateArgs : UpdatePolicy(arg.ptype, arg.old_rule, arg.new_rule)

SpecUpdate == Init /\ [][NextUpdate]_vars

\* Loading a table filled by add_policy.

\* The orders in which query.all() may return n rows.
Orders(n) ==
    {order \in [1..n -> 1..n] : \A i \in 1..n : \E k \in 1..n : order[k] = i}

NextLoad ==
    \/ \E arg \in AddArgs, fail \in BOOLEAN : AddPolicy(arg.ptype, arg.rule, fail)
    \/ \E order \in Orders(Len(table)) : LoadPolicy(order, "no")
    \/ \E filter \in Filters : LoadFilteredPolicy(filter, "no")

SpecLoad == Init /\ [][NextLoad]_vars

\* Loading and saving, with loads that fail, on an adapter constructed with
\* either value of filtered.

InitFlag ==
    /\ table = <<>>
    /\ pc = "idle"
    /\ todo = <<>>
    /\ last = NoCall
    /\ pre = <<>>
    /\ prev = NoPrev
    /\ filtered \in BOOLEAN
    /\ was = filtered
    /\ sess = NoSess
    /\ seen = NoSeen

FlagFilters == {MakeFilter({}, {}, {}, {}), MakeFilter({"p"}, {"alice"}, {}, {})}
FlagModels ==
    { <<>>,
      << [sec |-> "p", ptype |-> "p", policy |-> <<Chain(1), <<"bob">> >>] >> }

NextFlag ==
    \/ \E arg \in SaveAddArgs, fail \in BOOLEAN : AddPolicy(arg.ptype, arg.rule, fail)
    \/ \E order \in Orders(Len(table)), fail \in LoadFailures : LoadPolicy(order, fail)
    \/ \E filter \in FlagFilters, fail \in LoadFailures : LoadFilteredPolicy(filter, fail)
    \/ \E model \in FlagModels : SaveBegin(model)
    \/ \E fail \in BOOLEAN : SaveLine(fail)
    \/ \E fail \in BOOLEAN : SaveCommit(fail)

SpecFlag == InitFlag /\ [][NextFlag]_vars

\* Adding rules and removing lists of rules.

RemoveAddArgs ==
    {[ptype |-> "p", rule |-> r] :
        r \in {<<"alice", "data1">>, <<"bob", "data2">>, <<"alice", "data2">>,
               Chain(3), <<"bob">>}}
        \cup {[ptype |-> "g", rule |-> <<"alice", "data1">>]}

NextRemoves ==
    \/ \E arg \in RemoveAddArgs, fail \in BOOLEAN : AddPolicy(arg.ptype, arg.rule, fail)
    \/ \E ptype \in PTypes, rules \in RuleLists : RemovePolicies(ptype, rules)

SpecRemoves == Init /\ [][NextRemoves]_vars

\* Adding rules and updating lists of rules.

NextUpdates ==
    \/ \E arg \in UpdateAddArgs, fail \in BOOLEAN : AddPolicy(arg.ptype, arg.rule, fail)
    \/ \E pairs \in PairLists : UpdatePolicies("p", pairs)

SpecUpdates == Init /\ [][NextUpdates]_vars

\* A save_policy with the load_policy of another adapter on the same table
\* running beside it.

\* The rows save_policy is to leave in the table.
SavedRows(model) ==
    [n \in 1..Len(ModelLines(model)) |->
        SavePolicyLine(ModelLines(model)[n].ptype, ModelLines(model)[n].rule)]

\* load_policy of another adapter while save_policy runs: its query reads
\* the committed rows; the delete of the running save is not committed yet.
ReaderLoad ==
    /\ pc = "save"
    /\ seen' = [active |-> TRUE, rows |-> table, before |-> pre,
                after |-> SavedRows(last.a)]
    /\ UNCHANGED <<table, pc, todo, last, pre, prev, filtered, was, sess>>

NextConcurrent ==
    \/ \E arg \in SaveAddArgs, fail \in BOOLEAN : AddPolicy(arg.ptype, arg.rule, fail)
    \/ \E model \in Models : SaveBegin(model)
    \/ \E fail \in BOOLEAN : SaveLine(fail)
    \/ \E fail \in BOOLEAN : SaveCommit(fail)
    \/ ReaderLoad

SpecConcurrent == Init /\ [][NextConcurrent]_vars

----------------------------------------------------------------------------
\* Vocabulary of the properties.

\* row has the given ptype and, at every position of rule, rule's element.
Matches(row, ptype, rule) ==
    /\ row.ptype = ptype
    /\ Len(rule) <= NumFields
    /\ \A i \in 1..Len(rule) : row.v[i] = rule[i]

\* The positions of the rows of tbl that match.
MatchSet(tbl, ptype, rule) == {k \in 1..Len(tbl) : Matches(tbl[k], ptype, rule)}

\* tbl without its matching rows.
WithoutMatches(tbl, ptype, rule) ==
    LET Stays(row) == ~Matches(row, ptype, rule) IN SelectSeq(tbl, Stays)

\* row stores exactly the tuple (ptype, rule).
IsRecordOf(row, ptype, rule) ==
    /\ row.ptype = ptype
    /\ \A i \in 1..NumFields : row.v[i] = (IF i <= Len(rule) THEN rule[i] ELSE NULL)

\* The rule tuples of the "p" and "g" sections of a model, as <<j, i>>: the
\* i-th rule of the j-th assertion.
ModelTuples(model) ==
    UNION {{<<j, i>> : i \in 1..Len(model[j].policy)} :
              j \in {n \in 1..Len(model) : model[n].sec \in {"p", "g"}}}

Larger(m, n) == IF m > n THEN m ELSE n

----------------------------------------------------------------------------
\* C1: a save_policy that fails leaves the table exactly as it was before
\* the call: no partial mix of old rows and newly inserted rows persists.
C1_SaveIsOneTransaction ==
    (last.op = "save_policy" /\ last.status = "raised") => table = pre

\* C2: after a successful save_policy the table holds one record per rule
\* tuple of the model's "p" and "g" sections and nothing else, and the call
\* returned True.
C2_SaveReplacesTable ==
    (last.op = "save_policy" /\ last.status = "ok") =>
        LET model == last.a
            tuples == ModelTuples(model)
        IN /\ last.ret = "True"
           /\ Len(table) = Cardinality(tuples)
           /\ \A t \in tuples :
                 Cardinality({k \in 1..Len(table) :
                     IsRecordOf(table[k], model[t[1]].ptype, model[t[1]].policy[t[2]])})
                 = Cardinality({u \in tuples :
                     /\ model[u[1]].ptype = model[t[1]].ptype
                     /\ model[u[1]].policy[u[2]] = model[t[1]].policy[t[2]]})

\* A save over a non-empty table whose rows are all gone afterwards.
C2_Witness ==
    /\ last.op = "save_policy" /\ last.status = "ok"
    /\ pre # <<>> /\ table # <<>>
    /\ \A k \in 1..Len(pre) : \A n \in 1..Len(table) : table[n] # pre[k]

\* C3: add_policies persists every rule of the batch or, when an insert
\* fails, none of them.
C3_AddPoliciesAllOrNothing ==
    last.op = "add_policies" =>
        IF last.status = "raised" THEN table = pre
        ELSE Len(table) = Len(pre) + Len(last.a)

\* C4 as stated: add_policy then remove_policy with the identical ptype and
\* tuple brings the table back to what it was before the add_policy.
C4_AddRemoveRoundTrip ==
    (/\ last.op = "remove_policy" /\ last.status = "ok"
     /\ prev.op = "add_policy" /\ prev.status = "ok")
        => table = prev.pre

\* C4 amended: the round trip holds when the table before the add_policy held
\* no record matching the ptype and every position of the tuple.
C4_RoundTripUnlessMatched ==
    (/\ last.op = "remove_policy" /\ last.status = "ok"
     /\ prev.op = "add_policy" /\ prev.status = "ok"
     /\ MatchSet(prev.pre, last.ptype, last.a) = {})
        => table = prev.pre

\* A round trip over a non-empty table that holds no matching record.
C4_Witness ==
    /\ last.op = "remove_policy" /\ last.status = "ok" /\ last.ret = "True"
    /\ prev.op = "add_policy" /\ prev.status = "ok"
    /\ MatchSet(prev.pre, last.ptype, last.a) = {}
    /\ prev.pre # <<>>

\* C5: a rule tuple longer than the value columns is rejected by add_policy
\* and add_policies with an error, and no record is stored for it.
C5_LongRuleRejected ==
    /\ (last.op = "add_policy" /\ Len(last.a) > NumFields)
          => (last.status = "raised" /\ table = pre)
    /\ (last.op = "add_policies" /\ \E k \in 1..Len(last.a) : Len(last.a[k]) > NumFields)
          => (last.status = "raised" /\ Len(table) < Len(pre) + Len(last.a))

\* C6: in every stored record the set value fields are a prefix v0..vk: no
\* field is set after an unset one.
C6_ContiguousPrefix ==
    \A k \in 1..Len(table) : \A i \in 1..NumFields : \A j \in 1..NumFields :
        (i < j /\ table[k].v[j] # NULL) => table[k].v[i] # NULL

\* C7: update_policy raises and changes nothing when zero or several records
\* match ptype and every position of old_rule.
C7_UpdateNeedsOneMatch ==
    (last.op = "update_policy"
     /\ Cardinality(MatchSet(pre, last.ptype, last.a)) # 1)
        => (last.status = "raised" /\ table = pre)

\* An update_policy refused because two records match.
C7_Witness ==
    /\ last.op = "update_policy"
    /\ Cardinality(MatchSet(pre, last.ptype, last.a)) > 1
    /\ last.b # last.a

\* C8: with exactly one match update_policy rewrites that record's fields
\* below max(len(old_rule), len(new_rule)), new_rule's value or unset, and
\* leaves its ptype, its other fields and every other record as they were.
C8_UpdateChangesOneRecord ==
    (last.op = "update_policy"
     /\ Cardinality(MatchSet(pre, last.ptype, last.a)) = 1)
        => LET m == CHOOSE k \in MatchSet(pre, last.ptype, last.a) : TRUE
               top == Larger(Len(last.a), Len(last.b))
           IN /\ last.status = "ok"
              /\ Len(table) = Len(pre)
              /\ \A k \in 1..Len(pre) : k # m => table[k] = pre[k]
              /\ table[m].ptype = pre[m].ptype
              /\ \A i \in 1..NumFields :
                    table[m].v[i] =
                        IF i > top THEN pre[m].v[i]
                        ELSE IF i <= Len(last.b) THEN last.b[i] ELSE NULL

\* An update to a shorter rule of a record that has a field beyond old_rule,
\* beside another record.
C8_Witness ==
    /\ last.op = "update_policy" /\ last.status = "ok"
    /\ Len(last.b) < Len(last.a)
    /\ Len(pre) > 1
    /\ \E m \in MatchSet(pre, last.ptype, last.a) : pre[m].v[Len(last.a) + 1] # NULL

\* C9: remove_policy deletes exactly the records that match ptype and every
\* position of rule, returns True exactly when it deleted one, and an
\* identical call made right after it returns False and changes nothing.
C9_RemoveDeletesMatches ==
    (last.op = "remove_policy" /\ Len(last.a) <= NumFields) =>
        /\ last.status = "ok"
        /\ table = WithoutMatches(pre, last.ptype, last.a)
        /\ (last.ret = "True") = (MatchSet(pre, last.ptype, last.a) # {})
        /\ last.ret \in {"True", "False"}
        /\ (prev.op = "remove_policy" /\ prev.status = "ok")
              => (last.ret = "False" /\ table = pre)

\* A second identical remove_policy after one that deleted a record with set
\* fields beyond the rule and left another record in place.
C9_Witness ==
    /\ last.op = "remove_policy" /\ last.ret = "False"
    /\ prev.op = "remove_policy" /\ prev.ret = "True"
    /\ table # <<>>
    /\ \E k \in MatchSet(prev.pre, last.ptype, last.a) :
           prev.pre[k].v[Len(last.a) + 1] # NULL

\* C10: remove_filtered_policy returns False and deletes nothing when
\* field_index is outside 0..5 or field_index + len(field_values) is
\* outside 1..6.
C10_BadBoundsRefused ==
    (last.op = "remove_filtered_policy"
     /\ (\/ last.idx \notin 0..5
         \/ last.idx + Len(last.a) \notin 1..6))
        => (last.status = "ok" /\ last.ret = "False" /\ table = pre)

\* field_index = 5 with two values, on a table holding rows of the ptype.
C10_Witness ==
    /\ last.op = "remove_filtered_policy"
    /\ last.idx = 5 /\ Len(last.a) = 2
    /\ \E k \in 1..Len(pre) : pre[k].ptype = last.ptype

\* row has the given ptype and, for every non-empty field value, that value
\* in the column field_index + its offset.
FilterMatches(row, ptype, field_index, field_values) ==
    /\ row.ptype = ptype
    /\ \A i \in 1..Len(field_values) :
          field_values[i] # "" => row.v[field_index + i] = field_values[i]

\* field_index and the number of field values are within the bounds.
GoodBounds(field_index, field_values) ==
    /\ field_index \in 0..5
    /\ field_index + Len(field_values) \in 1..6

\* C11: within the bounds remove_filtered_policy deletes exactly the records
\* of the ptype whose column field_index+i holds every non-empty value i,
\* leaves the others as they were, and returns True exactly when it deleted
\* a record.
C11_FilteredRemoveDeletesMatches ==
    (last.op = "remove_filtered_policy" /\ GoodBounds(last.idx, last.a)) =>
        LET Stays(row) == ~FilterMatches(row, last.ptype, last.idx, last.a)
        IN /\ last.status = "ok"
           /\ table = SelectSeq(pre, Stays)
           /\ last.ret \in {"True", "False"}
           /\ (last.ret = "True") =
                 (\E k \in 1..Len(pre) :
                     FilterMatches(pre[k], last.ptype, last.idx, last.a))

\* A call with an empty string before a value that deleted a record and left
\* another one.
C11_Witness ==
    /\ last.op = "remove_filtered_policy" /\ GoodBounds(last.idx, last.a)
    /\ Len(last.a) = 2 /\ last.a[1] = "" /\ last.a[2] # ""
    /\ last.ret = "True"
    /\ table # <<>>

\* The call gives no non-empty field value.
Unconstrained(field_values) == \A i \in 1..Len(field_values) : field_values[i] = ""

\* C20 as stated: a remove_filtered_policy that supplies no field values or
\* only empty strings deletes nothing.
C20_UnconstrainedDeletesNothing ==
    (last.op = "remove_filtered_policy" /\ Unconstrained(last.a)) => table = pre

\* C20 amended: within the bounds such a call deletes every record of the
\* given ptype and no record of another ptype.
C20_UnconstrainedDeletesPtype ==
    (/\ last.op = "remove_filtered_policy"
     /\ Unconstrained(last.a)
     /\ GoodBounds(last.idx, last.a)) =>
        LET Other(row) == row.ptype # last.ptype
        IN /\ table = SelectSeq(pre, Other)
           /\ (last.ret = "True") = (\E k \in 1..Len(pre) : pre[k].ptype = last.ptype)

\* A call with field_index in 1..5 and no field values on a table that holds
\* a record of the ptype and a record of another ptype.
C20_Witness ==
    /\ last.op = "remove_filtered_policy"
    /\ last.a = <<>> /\ last.idx \in 1..5
    /\ \E k \in 1..Len(pre) : pre[k].ptype = last.ptype
    /\ \E k \in 1..Len(pre) : pre[k].ptype # last.ptype

\* ptype followed by the elements of rule from the k-th on, each after ", ".
RECURSIVE LineOf(_, _, _)
LineOf(ptype, rule, k) ==
    IF k > Len(rule) THEN ptype
    ELSE LineOf(ptype \o ", " \o rule[k], rule, k + 1)

\* C12: a load_policy made right after add_policy(sec, ptype, rule) with a
\* rule of 1 to 6 elements feeds the line loader the line "ptype, e0, e1, ..."
\* of the rule, ending with its last element.
C12_AddedRuleLoadsAsItsLine ==
    (/\ last.op = "load_policy" /\ last.status = "ok"
     /\ prev.op = "add_policy" /\ prev.status = "ok"
     /\ Len(prev.a) \in 1..NumFields)
        => \E n \in 1..Len(last.b) : last.b[n].line = LineOf(prev.ptype, prev.a, 1)

\* A load right after the add of a 6-element rule to a non-empty table.
C12_Witness ==
    /\ last.op = "load_policy" /\ last.status = "ok"
    /\ prev.op = "add_policy" /\ prev.status = "ok"
    /\ Len(prev.a) = NumFields
    /\ Len(last.b) > 1

\* row passes the filter: its ptype and each of its values is in the filter's
\* set for it, when that set is not empty.
Accepts(filter, row) ==
    /\ filter.ptype # {} => row.ptype \in filter.ptype
    /\ \A i \in 1..NumFields : filter.v[i] # {} => row.v[i] \in filter.v[i]

\* The rows that a load fed to the line loader, in order.
LoadedRows == [n \in 1..Len(last.b) |-> last.b[n].row]

\* C16: load_filtered_policy loads exactly the records that pass the filter,
\* in ascending id order; with an all-empty filter these are the records
\* that load_policy loads, which are all the records of the table.
C16_FilteredLoadSelects ==
    /\ (last.op = "load_filtered_policy" /\ last.status = "ok") =>
          LET Passes(row) == Accepts(last.a, row)
          IN /\ LoadedRows = SelectSeq(table, Passes)
             /\ (last.a.ptype = {} /\ \A i \in 1..NumFields : last.a.v[i] = {})
                   => LoadedRows = table
    /\ (last.op = "load_policy" /\ last.status = "ok") =>
          /\ Len(LoadedRows) = Len(table)
          /\ \A k \in 1..Len(table) :
                Cardinality({n \in 1..Len(table) : LoadedRows[n] = table[k]})
                = Cardinality({n \in 1..Len(table) : table[n] = table[k]})

\* A filtered load that took one of two records, by a filter on ptype and on
\* two value columns.
C16_Witness ==
    /\ last.op = "load_filtered_policy" /\ last.status = "ok"
    /\ last.a.ptype # {} /\ last.a.v[1] # {} /\ last.a.v[2] # {}
    /\ Len(table) = 2
    /\ Len(last.b) = 1

\* C17: only a load_filtered_policy that succeeds changes what is_filtered()
\* returns, and it makes it true; a load_filtered_policy that fails leaves
\* the flag as it was; a save_policy on a filtered adapter replaces the table.
C17_FlagSetBySuccessfulFilteredLoad ==
    /\ (last.op = "load_filtered_policy" /\ last.status = "ok") => filtered
    /\ (last.op = "load_filtered_policy" /\ last.status = "raised") => filtered = was
    /\ last.op # "load_filtered_policy" => filtered = was
    /\ (last.op = "save_policy" /\ last.status = "ok" /\ filtered)
          => Len(table) = Cardinality(ModelTuples(last.a))

\* C18: once is_filtered() is true it stays true.
C18_FilteredStaysTrue == [][filtered => filtered']_vars

\* An unfiltered load or a save that succeeded on a filtered adapter.
C18_Witness ==
    /\ last.op \in {"load_policy", "save_policy"} /\ last.status = "ok"
    /\ was /\ filtered
    /\ table # <<>>

\* The length of the shortest rule of a non-empty list.
MinLen(rules) ==
    CHOOSE n \in {Len(rules[r]) : r \in 1..Len(rules)} :
        \A r \in 1..Len(rules) : n <= Len(rules[r])

\* row has the ptype and, at each position below the shortest rule's length,
\* the element some rule has there.
MatchesPerPosition(row, ptype, rules) ==
    /\ row.ptype = ptype
    /\ \A i \in 1..MinLen(rules) : \E r \in 1..Len(rules) : row.v[i] = rules[r][i]

\* C15: remove_policies does nothing when rules is empty; otherwise it
\* deletes exactly the records of the ptype whose value at each position
\* below the shortest rule's length is some rule's element at that position.
C15_RemovePoliciesPerPosition ==
    last.op = "remove_policies" =>
        IF last.a = <<>>
        THEN table = pre /\ last.status = "ok" /\ sess = NoSess
        ELSE MinLen(last.a) <= NumFields =>
                LET Stays(row) == ~MatchesPerPosition(row, last.ptype, last.a)
                IN last.status = "ok" /\ table = SelectSeq(pre, Stays)

\* A remove_policies that deleted a record equal to none of its rules and
\* kept another record.
C15_Witness ==
    /\ last.op = "remove_policies" /\ last.status = "ok"
    /\ Len(last.a) = 2
    /\ table # <<>>
    /\ \E k \in 1..Len(pre) :
          /\ MatchesPerPosition(pre[k], last.ptype, last.a)
          /\ \A r \in 1..Len(last.a) : ~Matches(pre[k], last.ptype, last.a[r])

\* tbl after an update_policy(ptype, old_rule, new_rule) that finds exactly
\* one matching record.
UpdatedBy(tbl, ptype, old_rule, new_rule) ==
    LET m == CHOOSE k \in MatchSet(tbl, ptype, old_rule) : TRUE
        top == Larger(Len(old_rule), Len(new_rule))
    IN [tbl EXCEPT ![m].v =
          [i \in 1..NumFields |->
              IF i > top THEN tbl[m].v[i]
              ELSE IF i <= Len(new_rule) THEN new_rule[i] ELSE NULL]]

\* tbl after the updates of the pairs k..n, each finding exactly one match.
RECURSIVE AfterPairs(_, _, _, _, _, _)
AfterPairs(tbl, ptype, old_rules, new_rules, k, n) ==
    IF k > n THEN tbl
    ELSE AfterPairs(UpdatedBy(tbl, ptype, old_rules[k], new_rules[k]),
                    ptype, old_rules, new_rules, k + 1, n)

\* C13: update_policies applies the pairs in list order, each committed on
\* its own: when the update of pair k fails the updates of the pairs before
\* k stay committed, nothing of pair k or of a later pair is applied, and
\* the call raises; when none fails every pair is applied.
C13_UpdatePoliciesPairwise ==
    last.op = "update_policies" =>
        LET done == IF last.idx = 0 THEN Len(last.a) ELSE last.idx - 1
        IN /\ (last.status = "raised") = (last.idx # 0)
           /\ \A k \in 1..done :
                 Cardinality(MatchSet(
                     AfterPairs(pre, last.ptype, last.a, last.b, 1, k - 1),
                     last.ptype, last.a[k])) = 1
           /\ table = AfterPairs(pre, last.ptype, last.a, last.b, 1, done)
           /\ last.idx # 0 =>
                 Cardinality(MatchSet(table, last.ptype, last.a[last.idx])) # 1
           /\ Len(sess.ended) = (IF last.idx = 0 THEN Len(last.a) ELSE last.idx)

\* An update_policies whose second pair failed after its first pair changed
\* a record.
C13_Witness ==
    /\ last.op = "update_policies" /\ last.status = "raised"
    /\ last.idx = 2
    /\ table # pre

\* C14: every session scope ends by a commit or by a rollback, the scope that
\* ends a call by a rollback exactly when the call raises and every scope of
\* a call that returns by a commit, and no session is open once the call has
\* returned or raised.
C14_ScopesCommitOrRollbackAndClose ==
    /\ pc = "idle" => sess.open = 0
    /\ pc = "save" => sess.open = 1
    /\ \A n \in 1..Len(sess.ended) : sess.ended[n] \in {"commit", "rollback"}
    /\ (pc = "idle" /\ last.op # "none") =>
          /\ sess.ended # <<>>
          /\ (sess.ended[Len(sess.ended)] = "rollback") = (last.status = "raised")
          /\ last.status = "ok" =>
                \A n \in 1..Len(sess.ended) : sess.ended[n] = "commit"

\* A save_policy that raised after one insert had committed: the insert's
\* scope and the outer scope both rolled back.
C14_Witness ==
    /\ last.op = "save_policy" /\ last.status = "raised"
    /\ Len(sess.ended) = 3
    /\ sess.ended[1] = "commit" /\ sess.ended[2] = "rollback"
    /\ sess.open = 0

\* C19: a load_policy that runs beside a save_policy reads the table as it
\* was before the save or as the save is to leave it.
C19_ReaderSeesOldOrNewTable ==
    seen.active => (seen.rows = seen.before \/ seen.rows = seen.after)

====
